---- MODULE Spec2Model ----
(***************************************************************************)
(* GraphitiMemoryAdapter (src/src/memory/graphiti-adapter.ts) as a state   *)
(* machine.  JavaScript runs one callback at a time: an action is the      *)
(* code that runs between two suspension points (await of a remote tool    *)
(* invocation, await of an async method's promise).  A suspended call is   *)
(* an entry of `tasks`.  The remote service behind callGraphitiTool is the *)
(* environment: every invocation ends, in any order, with a result or a    *)
(* failure.                                                                *)
(***************************************************************************)
EXTENDS Integers, Sequences, FiniteSets, Bags, TLC

\* ------------------------------------------------------------------ bounds
MaxEpisodes == 2        \* addMemory calls in one run
MaxTasks == 2           \* calls suspended at an await at the same time
MaxDestroys == 1        \* destroy() calls in one run
MaxPasses == 2          \* sync passes (timer ticks and destroy's) in one run

\* --------------------------------------------------------- program constants
DefaultFallbackLimit == 10      \* options?.maxNodes || 10

Undefined == "undefined"
DefaultGroup == "default"
DefaultSource == "text"

\* ------------------------------------------------------------------ inputs
Names == {"n1"}
Contents == {"c1"}
Sources == {Undefined}
OptionGroupIds == {Undefined, "teamA"}
ConfigGroupIds == {Undefined}
Groups == (OptionGroupIds \cup ConfigGroupIds \cup {DefaultGroup}) \ {Undefined}
Queries == {<<"C", "1">>}
MaxNodesOptions == {0, 1}       \* 0: options.maxNodes absent
RemoteOutcomes == {"ok", "fail"}
RemoteItems == {<<"r1">>}
RemoteScores == {0, 75}         \* relevanceScore in hundredths
TemporalTrackingOptions == {TRUE}       \* config.enableTemporalTracking (line 86)
EdgeUuids == {1}                \* updateFactValidity: edgeUuid
FactValidUntils == {7}          \* updateFactValidity: validUntil (0: absent)
NodeUuidLists == {<<3, 9, 1>>}  \* shareWithHiveMind: nodeUuids
TargetSwarmLists == {<<"swarmA">>}      \* shareWithHiveMind: targetSwarms

ArrIds == 1 .. (Cardinality(Groups) + MaxTasks + 1)

VARIABLES
  config,        \* this.config (the options the model needs)
  isAvailable,   \* value of the pending checkGraphitiAvailability() promise
  initPc,        \* initialize(): "disabled", "probing" (at its await), "done"
  isConnected,   \* this.isConnected
  syncTimer,     \* this.syncTimer is set and not cleared
  episodeQueue,  \* this.episodeQueue: Map entries in insertion order, key -> array
  arrays,        \* the episode arrays the Map entries and the passes refer to
  nodeCache,     \* this.nodeCache: Map entries in insertion order
  edgeCache,     \* this.edgeCache
  tasks,         \* the bag of calls suspended at an await
  nextId,        \* next value of generateId()
  enqueued,      \* history: uuids in the order addMemory pushed them
  added,         \* history: memory:added notifications per episode uuid
  probes,        \* history: checkGraphitiAvailability() calls
  destroys,      \* history: destroy() calls
  destroyed,     \* history: a destroy() has emitted destroyed
  passes,        \* history: sync passes started
  discarded,     \* history: the episodes whose delivery failed in a pass that then
                 \* reset their queue: uuid, by (that pass), at (passes started by then)
  delivered,     \* history: uuids of the episodes an add_memory invocation delivered
  dropped,       \* the episodes line 462 of the step just taken took out of the buffer
  last,          \* the step just taken: operation, phase, how the call ended
  emitted,       \* notifications emitted by the step just taken
  invoked        \* remote tool invocations started by the step just taken

vars == <<config, isAvailable, initPc, isConnected, syncTimer, episodeQueue,
          arrays, nodeCache, edgeCache, tasks, nextId, enqueued, added,
          probes, destroys, destroyed, passes, discarded, delivered, dropped,
          last, emitted, invoked>>

\* ------------------------------------------------------------------ records
NoEpisode == [uuid |-> 0, name |-> "", content |-> "", source |-> "", groupId |-> ""]

NoResult == [field |-> "none", items |-> <<>>, relevanceScore |-> 0]

Idle == [op |-> "idle", pc |-> "", episode |-> NoEpisode, mapIdx |-> 0,
         groupId |-> "", episodes |-> 0, i |-> 0, log |-> <<>>, failed |-> {},
         passNo |-> 0, since |-> 0]

\* args of a step's record: the arguments of the call it begins, or what the
\* remote search it awaited answered (none for most steps).
NoArgs == [of |-> "none"]

\* phase: "call" (the call's first step) or "resume" (after an await);
\* kind: "pending" (suspended again), "return" or "throw";
\* remote: how the awaited remote invocation ended ("none": nothing was awaited).
Step(op, phase, kind, remote, uuid, result) ==
  [op |-> op, phase |-> phase, kind |-> kind, remote |-> remote, uuid |-> uuid,
   result |-> result, pass |-> 0, args |-> NoArgs]

\* A step of sync pass number n.
PassStep(op, phase, kind, remote, n) ==
  [Step(op, phase, kind, remote, 0, NoResult) EXCEPT !.pass = n]

Event(type, episode) == [type |-> type, episode |-> episode]

Invocation(tool, episode) == [tool |-> tool, uuid |-> episode.uuid, group_id |-> episode.groupId]

PassOps == {"syncWithGraphiti", "destroy"}

\* --------------------------------------------------------- Map and arrays
MapHas(q, k) == \E j \in DOMAIN q : q[j].key = k

MapGet(q, k) == q[CHOOSE j \in DOMAIN q : q[j].key = k].arr

\* Map.prototype.set: an existing key keeps its place, a new key goes last.
MapSet(q, k, a) ==
  IF MapHas(q, k)
  THEN [j \in DOMAIN q |-> IF q[j].key = k THEN [key |-> k, arr |-> a] ELSE q[j]]
  ELSE Append(q, [key |-> k, arr |-> a])

MapArrays(q) == {q[j].arr : j \in DOMAIN q}

\* Arrays a suspended pass still iterates.
HeldArrays(ts) ==
  {t.episodes : t \in {u \in DOMAIN ts : u.op \in PassOps /\ u.pc = "flushEpisode"}}

\* A fresh array ([]): the least identity nothing refers to.
NewArray(used) == CHOOSE a \in ArrIds : a \notin used /\ \A b \in ArrIds \ used : a <= b

\* Unreferenced arrays are garbage.
Collect(q, ts, h) ==
  [a \in ArrIds |-> IF a \in MapArrays(q) \cup HeldArrays(ts) THEN h[a] ELSE <<>>]

\* The episodes in the write buffer.
Queued(q, h) == UNION {{h[q[j].arr][k] : k \in DOMAIN h[q[j].arr]} : j \in DOMAIN q}

\* What a step of a pass took out of the buffer (q, h before it, q2, h2 after):
\* attempted: the pass had handed the episode to flushEpisode; racing: addMemory
\* queued it after the pass had begun.
Dropped(q, h, q2, h2, task) ==
  {[uuid |-> e.uuid,
    attempted |-> \E k \in DOMAIN task.log : task.log[k] = e,
    racing |-> e.uuid >= task.since] : e \in Queued(q, h) \ Queued(q2, h2)}

\* The bag of suspended calls with one more, one less.
AddTask(ts, task) ==
  IF task \in DOMAIN ts THEN [ts EXCEPT ![task] = @ + 1]
  ELSE [t \in DOMAIN ts \cup {task} |-> IF t = task THEN 1 ELSE ts[t]]

RemoveTask(ts, task) ==
  IF ts[task] > 1 THEN [ts EXCEPT ![task] = @ - 1]
  ELSE [t \in DOMAIN ts \ {task} |-> ts[t]]

\* Map.prototype.clear: live iterators go on with the entries added afterwards.
ClearIterator(task) == IF task.op \in PassOps THEN [task EXCEPT !.mapIdx = 0] ELSE task

RECURSIVE ClearIterators(_)
ClearIterators(ts) ==
  IF DOMAIN ts = {} THEN EmptyBag
  ELSE LET task == CHOOSE t \in DOMAIN ts : TRUE
       IN AddTask(ClearIterators(RemoveTask(ts, task)), ClearIterator(task))

\* MaxTasks bounds the calls in flight.
HasFreeTask == BagCardinality(tasks) < MaxTasks

\* A microtask is queued: it runs before any timer or remote completion.
MicrotaskPending ==
  \/ initPc = "probing"
  \/ \E t \in DOMAIN tasks : t.pc = "await_sync"

\* ------------------------------------------------------------ getStatistics
RECURSIVE SumLengths(_, _)
SumLengths(q, h) ==
  IF q = <<>> THEN 0 ELSE Len(h[Head(q).arr]) + SumLengths(Tail(q), h)

getStatistics ==
  [totalNodes |-> Len(nodeCache),
   totalEdges |-> Len(edgeCache),
   queuedEpisodes |-> SumLengths(episodeQueue, arrays),
   cacheSize |-> Len(nodeCache) + Len(edgeCache),
   isConnected |-> isConnected]

\* --------------------------------------------------------------- constructor
generateId == nextId

Init ==
  /\ config \in [enabled : BOOLEAN, enableAutoSync : BOOLEAN,
                 defaultGroupId : ConfigGroupIds,
                 enableTemporalTracking : TemporalTrackingOptions]
  /\ isAvailable \in BOOLEAN
  /\ initPc = IF config.enabled THEN "probing" ELSE "disabled"
  /\ probes = IF config.enabled THEN 1 ELSE 0
  /\ isConnected = FALSE
  /\ syncTimer = FALSE
  /\ episodeQueue = <<>>
  /\ arrays = [a \in ArrIds |-> <<>>]
  /\ nodeCache = <<>>
  /\ edgeCache = <<>>
  /\ tasks = EmptyBag
  /\ nextId = 1
  /\ enqueued = <<>>
  /\ added = [u \in 1 .. MaxEpisodes |-> 0]
  /\ destroys = 0
  /\ destroyed = FALSE
  /\ passes = 0
  /\ discarded = {}
  /\ delivered = {}
  /\ dropped = {}
  /\ last = Step("constructor", "call", "return", "none", 0, NoResult)
  /\ emitted = <<>>
  /\ invoked = <<>>

\* ---------------------------------------------------------------- initialize
\* Line 449: this.syncTimer = setInterval(...).
startAutoSync == TRUE

\* Mutant: the adapter connects whatever the probe answered.
probeConnectsAlways == TRUE

\* Line 102: the probe's answer decides.
probeConnects == isAvailable

\* The continuation of initialize() after `await this.checkGraphitiAvailability()`.
initialize ==
  /\ initPc = "probing"
  /\ initPc' = "done"
  /\ isConnected' = IF probeConnects THEN TRUE ELSE isConnected
  /\ syncTimer' = IF probeConnects /\ config.enableAutoSync THEN startAutoSync ELSE syncTimer
  /\ emitted' = IF probeConnects THEN <<Event("connected", NoEpisode)>>
                ELSE <<Event("fallback", NoEpisode)>>
  /\ last' = Step("initialize", "resume", "return", "none", 0, NoResult)
  /\ invoked' = <<>>
  /\ UNCHANGED <<config, isAvailable, episodeQueue, arrays, nodeCache, edgeCache,
                 tasks, nextId, enqueued, added, probes, destroys, destroyed, discarded, passes,
                 delivered>>
  /\ dropped' = {}

\* ----------------------------------------------------------------- addMemory
\* Mutant: the group's queue is replaced by one that holds only the new episode.
pushEpisodeReplaces(q, h, ts, episode) ==
  LET a == IF MapHas(q, episode.groupId) THEN MapGet(q, episode.groupId)
           ELSE NewArray(MapArrays(q) \cup HeldArrays(ts))
  IN [q |-> MapSet(q, episode.groupId, a),
      h |-> [h EXCEPT ![a] = <<episode>>]]

\* Mutant: unshift instead of push.
pushEpisodeAtHead(q, h, ts, episode) ==
  LET a == IF MapHas(q, episode.groupId) THEN MapGet(q, episode.groupId)
           ELSE NewArray(MapArrays(q) \cup HeldArrays(ts))
  IN [q |-> MapSet(q, episode.groupId, a),
      h |-> [h EXCEPT ![a] = <<episode>> \o @]]

\* Lines 155-157: the group's array (a new one if the group has none) with the
\* episode pushed at its tail, set under the group's key.
pushEpisode(q, h, ts, episode) ==
  LET a == IF MapHas(q, episode.groupId) THEN MapGet(q, episode.groupId)
           ELSE NewArray(MapArrays(q) \cup HeldArrays(ts))
  IN [q |-> MapSet(q, episode.groupId, a),
      h |-> [h EXCEPT ![a] = Append(@, episode)]]

newEpisode(name, content, source, groupId) ==
  [uuid |-> generateId,
   name |-> name,
   content |-> content,
   source |-> IF source # Undefined THEN source ELSE DefaultSource,
   groupId |-> IF groupId # Undefined THEN groupId
               ELSE IF config.defaultGroupId # Undefined THEN config.defaultGroupId
               ELSE DefaultGroup]

\* flushEpisode(episode): the add_memory invocation callGraphitiTool starts.
flushEpisode(episode) == <<Invocation("add_memory", episode)>>

\* addMemory up to its return (not connected) or to `await this.flushEpisode(episode)`.
addMemory(name, content, source, groupId) ==
  /\ nextId <= MaxEpisodes
  /\ isConnected => HasFreeTask
  /\ LET episode == newEpisode(name, content, source, groupId)
         pushed == pushEpisode(episodeQueue, arrays, tasks, episode)
     IN /\ episodeQueue' = pushed.q
        /\ arrays' = pushed.h
        /\ nextId' = nextId + 1
        /\ enqueued' = Append(enqueued, episode.uuid)
        /\ IF isConnected
           THEN /\ tasks' = AddTask(tasks, [Idle EXCEPT !.op = "addMemory",
                                                        !.pc = "flushEpisode",
                                                        !.episode = episode])
                /\ invoked' = flushEpisode(episode)
                /\ emitted' = <<>>
                /\ added' = added
                /\ last' = Step("addMemory", "call", "pending", "none", episode.uuid, NoResult)
           ELSE /\ tasks' = tasks
                /\ invoked' = <<>>
                /\ emitted' = <<Event("memory:added", episode)>>
                /\ added' = [added EXCEPT ![episode.uuid] = @ + 1]
                /\ last' = Step("addMemory", "call", "return", "none", episode.uuid, NoResult)
  /\ UNCHANGED <<config, isAvailable, initPc, isConnected, syncTimer, nodeCache,
                 edgeCache, probes, destroys, destroyed, discarded, passes,
                 delivered>>
  /\ dropped' = {}

\* Mutant: the catch takes the episode out of the buffer again.
flushEpisodeCatchDropsEpisode(q, h, episode) ==
  [q |-> q,
   h |-> [a \in DOMAIN h |-> SelectSeq(h[a], LAMBDA e : e.uuid # episode.uuid)],
   kind |-> "throw"]

\* Lines 394-397, the catch of flushEpisode: logs and rethrows; the buffer is
\* as it was.
flushEpisodeCatch(q, h, episode) == [q |-> q, h |-> h, kind |-> "throw"]

\* Mutant: a delivered episode is taken out of the buffer.
addMemoryDeliveredDequeues(q, h, episode) ==
  [q |-> q,
   h |-> [a \in DOMAIN h |-> SelectSeq(h[a], LAMBDA e : e.uuid # episode.uuid)]]

\* Lines 161-165 after a delivery that did not throw: addMemory emits and
\* returns, the buffer is as it was.
addMemoryDelivered(q, h, episode) == [q |-> q, h |-> h]

\* Lines 162-165 after the delivery succeeded; lines 394-397 and the await of
\* line 161 rethrow when it failed.
addMemoryResume(t, outcome) ==
  /\ t.op = "addMemory"
  /\ ~MicrotaskPending
  /\ tasks' = RemoveTask(tasks, t)
  /\ invoked' = <<>>
  /\ IF outcome = "ok"
     THEN /\ emitted' = <<Event("memory:added", t.episode)>>
          /\ added' = [added EXCEPT ![t.episode.uuid] = @ + 1]
          /\ last' = Step("addMemory", "resume", "return", outcome, t.episode.uuid, NoResult)
          /\ delivered' = delivered \cup {t.episode.uuid}
          /\ episodeQueue' = addMemoryDelivered(episodeQueue, arrays, t.episode).q
          /\ arrays' = addMemoryDelivered(episodeQueue, arrays, t.episode).h
     ELSE LET caught == flushEpisodeCatch(episodeQueue, arrays, t.episode)
          IN /\ emitted' = <<>>
             /\ added' = added
             /\ delivered' = delivered
             /\ episodeQueue' = caught.q
             /\ arrays' = caught.h
             /\ last' = Step("addMemory", "resume", caught.kind, outcome, t.episode.uuid,
                             NoResult)
  /\ UNCHANGED <<config, isAvailable, initPc, isConnected, syncTimer,
                 nodeCache, edgeCache, nextId, enqueued, probes, destroys,
                 destroyed, discarded, passes>>
  /\ dropped' = {}

\* ----------------------------------------------------------- syncWithGraphiti
PassDone(q, h) ==
  [q |-> q, h |-> h, done |-> TRUE, mapIdx |-> 0, groupId |-> "", episodes |-> 0, i |-> 0]

\* Mutant: the reset keeps the episodes no invocation has delivered yet.
resetQueueKeepsUndelivered(q, h, held, groupId) ==
  LET a == NewArray(MapArrays(q) \cup held)
      undelivered(e) == e.uuid \notin delivered
  IN [q |-> MapSet(q, groupId, a),
      h |-> [h EXCEPT ![a] = IF MapHas(q, groupId)
                             THEN SelectSeq(h[MapGet(q, groupId)], undelivered)
                             ELSE <<>>]]

\* Mutant: the queue is left as it is after the pass.
resetQueueKeeps(q, h, held, groupId) == [q |-> q, h |-> h]

\* Line 462: this.episodeQueue.set(groupId, []).
resetQueue(q, h, held, groupId) ==
  LET a == NewArray(MapArrays(q) \cup held)
  IN [q |-> MapSet(q, groupId, a), h |-> [h EXCEPT ![a] = <<>>]]

\* Lines 454-463 from the array iterator's next() of the inner loop: runs to the
\* next `await this.flushEpisode(episode)` or to the end of the outer loop.
\* mapIdx: entries the Map iterator has yielded; i: the array iterator's index.
\* Both iterators are live: they see what was pushed or set meanwhile.
RECURSIVE syncLoop(_, _, _, _, _, _, _)
syncLoop(q, h, held, mapIdx, groupId, episodes, i) ==
  IF i <= Len(h[episodes])
  THEN [q |-> q, h |-> h, done |-> FALSE, mapIdx |-> mapIdx, groupId |-> groupId,
        episodes |-> episodes, i |-> i]
  ELSE LET r == resetQueue(q, h, held, groupId)
       IN IF mapIdx < Len(r.q)
          THEN syncLoop(r.q, r.h, held, mapIdx + 1, r.q[mapIdx + 1].key,
                        r.q[mapIdx + 1].arr, 1)
          ELSE PassDone(r.q, r.h)

\* syncWithGraphiti() from its first line.
syncStart(q, h, held) ==
  IF Len(q) = 0 THEN PassDone(q, h)
  ELSE syncLoop(q, h, held, 1, q[1].key, q[1].arr, 1)

\* Mutant: the pass goes to the reset without the array's remaining episodes.
syncContinueSkipsRest(q, h, held, task, outcome) ==
  syncLoop(q, h, held, task.mapIdx, task.groupId, task.episodes,
           Len(h[task.episodes]) + 1)

\* Mutant: no try/catch around the delivery, a failure ends the pass.
syncContinueAborts(q, h, held, task, outcome) ==
  IF outcome = "fail" THEN PassDone(q, h)
  ELSE syncLoop(q, h, held, task.mapIdx, task.groupId, task.episodes, task.i + 1)

\* The continuation of a pass after a delivery ended: the catch of lines 458-460
\* swallows a failure, so the outcome does not matter.
syncContinue(q, h, held, task, outcome) ==
  syncLoop(q, h, held, task.mapIdx, task.groupId, task.episodes, task.i + 1)

\* The task of a pass suspended in flushEpisode.  log: the episodes the pass
\* has handed to flushEpisode; failed: the deliveries of the array it iterates
\* that failed.
Flushing(task, p, h) ==
  [task EXCEPT !.pc = "flushEpisode", !.mapIdx = p.mapIdx, !.groupId = p.groupId,
               !.episodes = p.episodes, !.i = p.i,
               !.episode = h[p.episodes][p.i],
               !.log = Append(@, h[p.episodes][p.i]),
               !.failed = IF p.episodes = task.episodes /\ p.i = task.i + 1
                          THEN @ ELSE {}]

\* The pass with the outcome of the delivery it awaited noted.
Delivered(task, outcome) ==
  [task EXCEPT !.failed = IF outcome = "fail" THEN @ \cup {task.episode.uuid} ELSE @]

\* The successful deliveries with the one the resuming pass awaited.
DeliveredWith(task, outcome) ==
  IF outcome = "ok" THEN delivered \cup {task.episode.uuid}
  ELSE delivered

\* The failed deliveries of the array a resuming pass leaves behind, if it has
\* reached the array's end (line 462 then resets the group's queue).
FailedAndReset(task, h) ==
  IF task.i + 1 > Len(h[task.episodes])
  THEN {[uuid |-> u, by |-> task.passNo, at |-> passes] : u \in task.failed}
  ELSE {}

\* The setInterval callback of startAutoSync: one periodic pass begins.
syncTick ==
  /\ syncTimer
  /\ ~MicrotaskPending
  /\ passes < MaxPasses
  /\ passes' = passes + 1
  /\ LET p == syncStart(episodeQueue, arrays, HeldArrays(tasks))
     IN /\ ~p.done => HasFreeTask
        /\ episodeQueue' = p.q
        /\ IF p.done
           THEN /\ tasks' = tasks
                /\ arrays' = Collect(p.q, tasks, p.h)
                /\ invoked' = <<>>
                /\ emitted' = <<Event("sync:completed", NoEpisode)>>
                /\ last' = PassStep("syncWithGraphiti", "call", "return", "none", passes')
           ELSE /\ tasks' = AddTask(tasks,
                               Flushing([Idle EXCEPT !.op = "syncWithGraphiti",
                                                     !.passNo = passes',
                                                     !.since = nextId], p, p.h))
                /\ arrays' = Collect(p.q, tasks', p.h)
                /\ invoked' = flushEpisode(p.h[p.episodes][p.i])
                /\ emitted' = <<>>
                /\ last' = PassStep("syncWithGraphiti", "call", "pending", "none", passes')
  /\ dropped' = Dropped(episodeQueue, arrays, episodeQueue', arrays',
                        [Idle EXCEPT !.since = nextId])
  /\ UNCHANGED <<config, isAvailable, initPc, isConnected, syncTimer, nodeCache,
                 edgeCache, nextId, enqueued, added, probes, destroys, destroyed, discarded,
                 delivered>>

\* A periodic pass resumes after the delivery it awaited.
syncResume(t, outcome) ==
  /\ t.op = "syncWithGraphiti"
  /\ ~MicrotaskPending
  /\ LET others == RemoveTask(tasks, t)
         task == Delivered(t, outcome)
         p == syncContinue(episodeQueue, arrays, HeldArrays(others), task, outcome)
     IN /\ episodeQueue' = p.q
        /\ discarded' = discarded \cup FailedAndReset(task, arrays)
        /\ IF p.done
           THEN /\ tasks' = others
                /\ invoked' = <<>>
                /\ emitted' = <<Event("sync:completed", NoEpisode)>>
                /\ last' = PassStep("syncWithGraphiti", "resume", "return", outcome,
                                    t.passNo)
           ELSE /\ tasks' = AddTask(others, Flushing(task, p, p.h))
                /\ invoked' = flushEpisode(p.h[p.episodes][p.i])
                /\ emitted' = <<>>
                /\ last' = PassStep("syncWithGraphiti", "resume", "pending", outcome,
                                    t.passNo)
        /\ arrays' = Collect(p.q, tasks', p.h)
        /\ delivered' = DeliveredWith(t, outcome)
        /\ dropped' = Dropped(episodeQueue, arrays, p.q, arrays', task)
  /\ UNCHANGED <<config, isAvailable, initPc, isConnected, syncTimer, nodeCache,
                 edgeCache, nextId, enqueued, added, probes, destroys, destroyed, passes>>

\* --------------------------------------------------------------------- destroy
\* Mutant: destroy() forgets this.episodeQueue.clear().
destroyCleanupKeepsBuffer ==
  [nodeCache |-> <<>>, edgeCache |-> <<>>, episodeQueue |-> episodeQueue,
   isConnected |-> FALSE]

\* Lines 480-483: what destroy() leaves of the caches, the buffer and the flag.
destroyCleanup ==
  [nodeCache |-> <<>>, edgeCache |-> <<>>, episodeQueue |-> <<>>, isConnected |-> FALSE]

\* destroy() to the first await it reaches: a delivery of its final pass, or
\* `await this.syncWithGraphiti()` itself when the pass had nothing to deliver.
destroy ==
  /\ destroys < MaxDestroys
  /\ HasFreeTask
  /\ passes < MaxPasses
  /\ passes' = passes + 1
  /\ destroys' = destroys + 1
  /\ syncTimer' = FALSE
  /\ LET p == syncStart(episodeQueue, arrays, HeldArrays(tasks))
     IN /\ episodeQueue' = p.q
        /\ IF p.done
           THEN /\ tasks' = AddTask(tasks, [Idle EXCEPT !.op = "destroy",
                                                        !.pc = "await_sync",
                                                        !.passNo = passes',
                                                        !.since = nextId])
                /\ invoked' = <<>>
                /\ emitted' = <<Event("sync:completed", NoEpisode)>>
           ELSE /\ tasks' = AddTask(tasks, Flushing([Idle EXCEPT !.op = "destroy",
                                                                 !.passNo = passes',
                                                                 !.since = nextId],
                                                    p, p.h))
                /\ invoked' = flushEpisode(p.h[p.episodes][p.i])
                /\ emitted' = <<>>
        /\ arrays' = Collect(p.q, tasks', p.h)
  /\ last' = PassStep("destroy", "call", "pending", "none", passes')
  /\ dropped' = Dropped(episodeQueue, arrays, episodeQueue', arrays',
                        [Idle EXCEPT !.since = nextId])
  /\ UNCHANGED <<config, isAvailable, initPc, isConnected, nodeCache, edgeCache,
                 nextId, enqueued, added, probes, destroyed, discarded,
                 delivered>>

\* destroy()'s final pass resumes after the delivery it awaited.
destroyResume(t, outcome) ==
  /\ t.op = "destroy"
  /\ t.pc = "flushEpisode"
  /\ ~MicrotaskPending
  /\ LET others == RemoveTask(tasks, t)
         task == Delivered(t, outcome)
         p == syncContinue(episodeQueue, arrays, HeldArrays(others), task, outcome)
     IN /\ episodeQueue' = p.q
        /\ discarded' = discarded \cup FailedAndReset(task, arrays)
        /\ IF p.done
           THEN /\ tasks' = AddTask(others, [Idle EXCEPT !.op = "destroy",
                                                         !.pc = "await_sync",
                                                         !.passNo = t.passNo,
                                                         !.since = t.since])
                /\ invoked' = <<>>
                /\ emitted' = <<Event("sync:completed", NoEpisode)>>
           ELSE /\ tasks' = AddTask(others, Flushing(task, p, p.h))
                /\ invoked' = flushEpisode(p.h[p.episodes][p.i])
                /\ emitted' = <<>>
        /\ arrays' = Collect(p.q, tasks', p.h)
        /\ delivered' = DeliveredWith(t, outcome)
        /\ dropped' = Dropped(episodeQueue, arrays, p.q, arrays', task)
  /\ last' = PassStep("destroy", "resume", "pending", outcome, t.passNo)
  /\ UNCHANGED <<config, isAvailable, initPc, isConnected, syncTimer, nodeCache,
                 edgeCache, nextId, enqueued, added, probes, destroys, destroyed, passes>>

\* Lines 480-485, the continuation of `await this.syncWithGraphiti()`.
destroyFinish(t) ==
  /\ t.op = "destroy"
  /\ t.pc = "await_sync"
  /\ initPc # "probing"
  /\ tasks' = ClearIterators(RemoveTask(tasks, t))
  /\ nodeCache' = destroyCleanup.nodeCache
  /\ edgeCache' = destroyCleanup.edgeCache
  /\ episodeQueue' = destroyCleanup.episodeQueue
  /\ isConnected' = destroyCleanup.isConnected
  /\ arrays' = Collect(episodeQueue', tasks', arrays)
  /\ destroyed' = TRUE
  /\ emitted' = <<Event("destroyed", NoEpisode)>>
  /\ invoked' = <<>>
  /\ last' = PassStep("destroy", "resume", "return", "none", t.passNo)
  /\ UNCHANGED <<config, isAvailable, initPc, syncTimer, nextId, enqueued, added,
                 probes, destroys, discarded, passes,
                 delivered>>
  /\ dropped' = {}

\* ------------------------------------------------------------------ clearGraph
\* Mutant: clearGraph() forgets this.episodeQueue.clear().
clearLocalKeepsBuffer ==
  [nodeCache |-> <<>>, edgeCache |-> <<>>, episodeQueue |-> episodeQueue]

\* Lines 292-294: what clearGraph() leaves of the caches and the buffer.
clearLocal ==
  [nodeCache |-> <<>>, edgeCache |-> <<>>, episodeQueue |-> <<>>]

\* Line 296.
clearedEvents == <<Event("graph:cleared", NoEpisode)>>

\* Lines 291-297 as one step.
clearAndEmit(ts) ==
  /\ tasks' = ClearIterators(ts)
  /\ nodeCache' = clearLocal.nodeCache
  /\ edgeCache' = clearLocal.edgeCache
  /\ episodeQueue' = clearLocal.episodeQueue
  /\ arrays' = Collect(episodeQueue', tasks', arrays)
  /\ emitted' = clearedEvents

\* Line 287: the remote clear is invoked only when connected.
clearInvokesRemote == isConnected

\* clearGraph() to its return (not connected) or to `await callGraphitiTool('clear_graph')`.
clearGraph ==
  /\ IF clearInvokesRemote
     THEN /\ HasFreeTask
          /\ tasks' = AddTask(tasks, [Idle EXCEPT !.op = "clearGraph",
                                                  !.pc = "callGraphitiTool"])
          /\ invoked' = <<Invocation("clear_graph", NoEpisode)>>
          /\ emitted' = <<>>
          /\ last' = Step("clearGraph", "call", "pending", "none", 0, NoResult)
          /\ UNCHANGED <<nodeCache, edgeCache, episodeQueue, arrays>>
     ELSE /\ clearAndEmit(tasks)
          /\ invoked' = <<>>
          /\ last' = Step("clearGraph", "call", "return", "none", 0, NoResult)
  /\ UNCHANGED <<config, isAvailable, initPc, isConnected, syncTimer, nextId,
                 enqueued, added, probes, destroys, destroyed, discarded, passes,
                 delivered>>
  /\ dropped' = {}

\* Mutant: the catch swallows the failure.
clearGraphEndSwallows(outcome) == "return"

\* How clearGraph() ends when the remote clear ended with `outcome`: lines 298-301
\* rethrow a failure.
clearGraphEnd(outcome) == IF outcome = "ok" THEN "return" ELSE "throw"

clearGraphResume(t, outcome) ==
  /\ t.op = "clearGraph"
  /\ ~MicrotaskPending
  /\ invoked' = <<>>
  /\ last' = Step("clearGraph", "resume", clearGraphEnd(outcome), outcome, 0, NoResult)
  /\ IF outcome = "ok"
     THEN clearAndEmit(RemoveTask(tasks, t))
     ELSE /\ tasks' = RemoveTask(tasks, t)
          /\ emitted' = <<>>
          /\ UNCHANGED <<nodeCache, edgeCache, episodeQueue, arrays>>
  /\ UNCHANGED <<config, isAvailable, initPc, isConnected, syncTimer, nextId,
                 enqueued, added, probes, destroys, destroyed, discarded, passes,
                 delivered>>
  /\ dropped' = {}

\* -------------------------------------------------------------- fallbackSearch
\* Strings are sequences of characters.
LowerChar(c) == CASE c = "A" -> "a" [] c = "B" -> "b" [] c = "C" -> "c" [] OTHER -> c

toLowerCase(str) == [k \in DOMAIN str |-> LowerChar(str[k])]

includes(str, sub) ==
  \E k \in 0 .. (Len(str) - Len(sub)) : SubSeq(str, k + 1, k + Len(sub)) = sub

\* Mutant: the comparison is case-sensitive.
nodeMatchesCaseSensitive(node, query) ==
  \/ includes(node.name, query)
  \/ \E k \in DOMAIN node.observations : includes(node.observations[k], query)

\* Lines 426-431.
nodeMatches(node, query) ==
  \/ includes(toLowerCase(node.name), toLowerCase(query))
  \/ \E k \in DOMAIN node.observations :
       includes(toLowerCase(node.observations[k]), toLowerCase(query))

RECURSIVE matchingNodes(_, _)
matchingNodes(cache, query) ==
  IF cache = <<>> THEN <<>>
  ELSE (IF nodeMatches(Head(cache).node, query) THEN <<Head(cache).node>> ELSE <<>>)
       \o matchingNodes(Tail(cache), query)

slice(seq, n) == SubSeq(seq, 1, IF n < Len(seq) THEN n ELSE Len(seq))

\* Mutant: the score is 0.5 whether or not a node matched.
fallbackSearchScoresHalf(query, maxNodes) ==
  LET results == matchingNodes(nodeCache, query)
  IN [field |-> "nodes",
      items |-> slice(results, IF maxNodes # 0 THEN maxNodes ELSE DefaultFallbackLimit),
      relevanceScore |-> 50]

fallbackSearch(query, maxNodes) ==
  LET results == matchingNodes(nodeCache, query)
  IN [field |-> "nodes",
      items |-> slice(results, IF maxNodes # 0 THEN maxNodes ELSE DefaultFallbackLimit),
      relevanceScore |-> IF Len(results) > 0 THEN 50 ELSE 0]

\* ------------------------------------------------- searchNodes and searchFacts
SearchOps == {"searchNodes", "searchFacts"}

searchTool(op) == IF op = "searchNodes" THEN "search_memory_nodes" ELSE "search_memory_facts"

searchField(op) == IF op = "searchNodes" THEN "nodes" ELSE "facts"

\* Lines 195-198 and 229-232: the remote result, relevanceScore || 0.5.
remoteResult(op, items, score) ==
  [field |-> searchField(op), items |-> items,
   relevanceScore |-> IF score # 0 THEN score ELSE 50]

\* Mutant: the catch rethrows.
searchFailedRethrows(op) == [kind |-> "throw", result |-> NoResult]

\* Lines 199-202 and 233-236: the catch turns a failure into an empty result.
searchFailed(op) ==
  [kind |-> "return",
   result |-> [field |-> searchField(op), items |-> <<>>, relevanceScore |-> 0]]

\* searchNodes/searchFacts to the return of the fallback search (not connected)
\* or to `await this.callGraphitiTool(...)`.
search(op, query, maxNodes) ==
  /\ IF ~isConnected
     THEN /\ tasks' = tasks
          /\ invoked' = <<>>
          /\ last' = [Step(op, "call", "return", "none", 0, fallbackSearch(query, maxNodes))
                       EXCEPT !.args = [query |-> query, maxNodes |-> maxNodes]]
     ELSE /\ HasFreeTask
          /\ tasks' = AddTask(tasks, [Idle EXCEPT !.op = op, !.pc = "callGraphitiTool"])
          /\ invoked' = <<Invocation(searchTool(op), NoEpisode)>>
          /\ last' = Step(op, "call", "pending", "none", 0, NoResult)
  /\ emitted' = <<>>
  /\ UNCHANGED <<config, isAvailable, initPc, isConnected, syncTimer, episodeQueue,
                 arrays, nodeCache, edgeCache, nextId, enqueued, added, probes,
                 destroys, destroyed, discarded, passes,
                 delivered>>
  /\ dropped' = {}

searchResume(t, outcome, items, score) ==
  /\ t.op \in SearchOps
  /\ ~MicrotaskPending
  /\ tasks' = RemoveTask(tasks, t)
  /\ invoked' = <<>>
  /\ emitted' = <<>>
  /\ last' = IF outcome = "ok"
             THEN [Step(t.op, "resume", "return", outcome, 0,
                        remoteResult(t.op, items, score))
                    EXCEPT !.args = [items |-> items, relevanceScore |-> score]]
             ELSE Step(t.op, "resume", searchFailed(t.op).kind, outcome, 0,
                       searchFailed(t.op).result)
  /\ UNCHANGED <<config, isAvailable, initPc, isConnected, syncTimer, episodeQueue,
                 arrays, nodeCache, edgeCache, nextId, enqueued, added, probes,
                 destroys, destroyed, discarded, passes,
                 delivered>>
  /\ dropped' = {}

\* ---------------------------------------------------------- updateFactValidity
FactUpdated(edgeUuid, isValid, validUntil) ==
  [type |-> "fact:updated", edgeUuid |-> edgeUuid, isValid |-> isValid,
   validUntil |-> validUntil]

\* Map.prototype.has and get of a cache (entries in insertion order).
CacheHas(cache, k) == \E j \in DOMAIN cache : cache[j].key = k

CacheIndex(cache, k) == CHOOSE j \in DOMAIN cache : cache[j].key = k

\* Mutant: the validity of every cached edge is set.
setValidityOfAll(cache, edgeUuid, isValid, validUntil) ==
  [j \in DOMAIN cache |->
     [cache[j] EXCEPT !.edge = [@ EXCEPT !.invalid = ~isValid, !.validUntil = validUntil]]]

\* Lines 318-320: the cached edge with its validity set, put back under its key.
setValidity(cache, edgeUuid, isValid, validUntil) ==
  [cache EXCEPT ![CacheIndex(cache, edgeUuid)].edge =
                   [@ EXCEPT !.invalid = ~isValid, !.validUntil = validUntil]]

\* Lines 312-317: tracking is enabled and the edge is cached.
tracksEdge(cache, edgeUuid) == config.enableTemporalTracking /\ CacheHas(cache, edgeUuid)

\* updateFactValidity(): it reaches no await.
updateFactValidity(edgeUuid, isValid, validUntil) ==
  /\ IF tracksEdge(edgeCache, edgeUuid)
     THEN /\ edgeCache' = setValidity(edgeCache, edgeUuid, isValid, validUntil)
          /\ emitted' = <<FactUpdated(edgeUuid, isValid, validUntil)>>
     ELSE /\ edgeCache' = edgeCache
          /\ emitted' = <<>>
  /\ invoked' = <<>>
  /\ dropped' = {}
  /\ last' = [Step("updateFactValidity", "call", "return", "none", 0, NoResult)
               EXCEPT !.args = [edgeUuid |-> edgeUuid, isValid |-> isValid,
                                validUntil |-> validUntil]]
  /\ UNCHANGED <<config, isAvailable, initPc, isConnected, syncTimer, episodeQueue,
                 arrays, nodeCache, tasks, nextId, enqueued, added, probes,
                 destroys, destroyed, discarded, passes, delivered>>

\* ----------------------------------------------------------- shareWithHiveMind
HiveMindShare(nodes, targetSwarms) ==
  [type |-> "hivemind:share", nodes |-> nodes, targetSwarms |-> targetSwarms]

\* Mutant: the resolved nodes in the order the cache holds them.
resolveNodesInCacheOrder(cache, nodeUuids) ==
  LET hit(entry) == \E k \in DOMAIN nodeUuids : nodeUuids[k] = entry.key
      hits == SelectSeq(cache, hit)
  IN [k \in DOMAIN hits |-> hits[k].node]

\* Lines 333-335: nodeUuids.map(uuid => this.nodeCache.get(uuid)).filter(Boolean).
RECURSIVE resolveNodes(_, _)
resolveNodes(cache, nodeUuids) ==
  IF nodeUuids = <<>> THEN <<>>
  ELSE (IF CacheHas(cache, Head(nodeUuids))
        THEN <<cache[CacheIndex(cache, Head(nodeUuids))].node>> ELSE <<>>)
       \o resolveNodes(cache, Tail(nodeUuids))

\* Lines 337-342: the notification, if any node resolved.
shareEvents(nodes, targetSwarms) ==
  IF Len(nodes) > 0 THEN <<HiveMindShare(nodes, targetSwarms)>> ELSE <<>>

\* shareWithHiveMind(): it reaches no await.
shareWithHiveMind(nodeUuids, targetSwarms) ==
  /\ emitted' = shareEvents(resolveNodes(nodeCache, nodeUuids), targetSwarms)
  /\ invoked' = <<>>
  /\ dropped' = {}
  /\ last' = [Step("shareWithHiveMind", "call", "return", "none", 0, NoResult)
               EXCEPT !.args = [nodeUuids |-> nodeUuids, targetSwarms |-> targetSwarms]]
  /\ UNCHANGED <<config, isAvailable, initPc, isConnected, syncTimer, episodeQueue,
                 arrays, nodeCache, edgeCache, tasks, nextId, enqueued, added, probes,
                 destroys, destroyed, discarded, passes, delivered>>

Next ==
  \/ initialize
  \/ \E edgeUuid \in EdgeUuids, isValid \in BOOLEAN, validUntil \in FactValidUntils :
       updateFactValidity(edgeUuid, isValid, validUntil)
  \/ \E nodeUuids \in NodeUuidLists, targetSwarms \in TargetSwarmLists :
       shareWithHiveMind(nodeUuids, targetSwarms)
  \/ \E op \in SearchOps, query \in Queries, maxNodes \in MaxNodesOptions :
       search(op, query, maxNodes)
  \/ \E t \in DOMAIN tasks, outcome \in RemoteOutcomes, items \in RemoteItems,
        score \in RemoteScores : searchResume(t, outcome, items, score)
  \/ destroy
  \/ \E t \in DOMAIN tasks, outcome \in RemoteOutcomes : destroyResume(t, outcome)
  \/ \E t \in DOMAIN tasks : destroyFinish(t)
  \/ clearGraph
  \/ \E t \in DOMAIN tasks, outcome \in RemoteOutcomes : clearGraphResume(t, outcome)
  \/ syncTick
  \/ \E t \in DOMAIN tasks, outcome \in RemoteOutcomes : syncResume(t, outcome)
  \/ \E name \in Names, content \in Contents, source \in Sources, groupId \in OptionGroupIds :
       addMemory(name, content, source, groupId)
  \/ \E t \in DOMAIN tasks, outcome \in RemoteOutcomes : addMemoryResume(t, outcome)

Spec == Init /\ [][Next]_vars

\* ------------------------------------------------------------- seeded caches
\* No operation of the adapter puts an entry into nodeCache or edgeCache; what
\* fallbackSearch, updateFactValidity and shareWithHiveMind do with cached
\* entries is checked on caches that hold some from the start.
Node(uuid, name, observations) ==
  [key |-> uuid, node |-> [uuid |-> uuid, name |-> name, observations |-> observations]]

Edge(uuid, invalid, validUntil) ==
  [key |-> uuid, edge |-> [uuid |-> uuid, invalid |-> invalid, validUntil |-> validUntil]]

\* One node more than the default limit, every one matching the query.
ManyNodes == [j \in 1 .. (DefaultFallbackLimit + 1) |-> Node(j, <<"c", "1">>, <<>>)]

NodeCaches ==
  {<<>>,
   <<Node(4, <<"c">>, <<<<"1">>>>)>>,
   <<Node(1, <<"a", "C", "1">>, <<>>),
     Node(4, <<"c">>, <<<<"1">>>>),
     Node(2, <<"z">>, <<<<"x">>, <<"c", "1", "b">>>>),
     Node(3, <<"c", "1">>, <<<<"C", "1">>>>)>>,
   ManyNodes}

EdgeCaches ==
  {<<>>,
   <<Edge(9, FALSE, 0)>>,
   <<Edge(9, TRUE, 0), Edge(1, FALSE, 0), Edge(5, FALSE, 7)>>}

CacheInit ==
  /\ config \in [enabled : BOOLEAN, enableAutoSync : {FALSE},
                 defaultGroupId : ConfigGroupIds,
                 enableTemporalTracking : BOOLEAN]
  /\ isAvailable \in (IF config.enabled THEN BOOLEAN ELSE {FALSE})
  /\ initPc = IF config.enabled THEN "probing" ELSE "disabled"
  /\ probes = IF config.enabled THEN 1 ELSE 0
  /\ isConnected = FALSE
  /\ syncTimer = FALSE
  /\ episodeQueue = <<>>
  /\ arrays = [a \in ArrIds |-> <<>>]
  /\ nodeCache \in NodeCaches
  /\ edgeCache \in EdgeCaches
  /\ tasks = EmptyBag
  /\ nextId = 1
  /\ enqueued = <<>>
  /\ added = [u \in 1 .. MaxEpisodes |-> 0]
  /\ destroys = 0
  /\ destroyed = FALSE
  /\ passes = 0
  /\ discarded = {}
  /\ delivered = {}
  /\ dropped = {}
  /\ last = Step("constructor", "call", "return", "none", 0, NoResult)
  /\ emitted = <<>>
  /\ invoked = <<>>

\* The operations that read or clear the caches, and addMemory.
CacheNext ==
  \/ initialize
  \/ \E edgeUuid \in EdgeUuids, isValid \in BOOLEAN, validUntil \in FactValidUntils :
       updateFactValidity(edgeUuid, isValid, validUntil)
  \/ \E nodeUuids \in NodeUuidLists, targetSwarms \in TargetSwarmLists :
       shareWithHiveMind(nodeUuids, targetSwarms)
  \/ \E op \in SearchOps, query \in Queries, maxNodes \in MaxNodesOptions :
       search(op, query, maxNodes)
  \/ \E t \in DOMAIN tasks, outcome \in RemoteOutcomes, items \in RemoteItems,
        score \in RemoteScores : searchResume(t, outcome, items, score)
  \/ clearGraph
  \/ \E t \in DOMAIN tasks, outcome \in RemoteOutcomes : clearGraphResume(t, outcome)
  \/ \E name \in Names, content \in Contents, source \in Sources, groupId \in OptionGroupIds :
       addMemory(name, content, source, groupId)
  \/ \E t \in DOMAIN tasks, outcome \in RemoteOutcomes : addMemoryResume(t, outcome)

CacheSpec == CacheInit /\ [][CacheNext]_vars

\* ===================================================================== claims
Range(seq) == {seq[k] : k \in DOMAIN seq}

Uuids == 1 .. MaxEpisodes

\* The uuids in the write buffer.
QueuedUuids ==
  UNION {{e.uuid : e \in Range(arrays[episodeQueue[j].arr])} : j \in DOMAIN episodeQueue}

EpisodeQueued(u) == u \in QueuedUuids

\* Position of a uuid in the order addMemory enqueued the episodes.
Pos(u) == CHOOSE k \in DOMAIN enqueued : enqueued[k] = u

\* The suspended call the step being taken resumes.
Resumed(t) == t \in DOMAIN tasks /\ (t \notin DOMAIN tasks' \/ tasks'[t] < tasks[t])

PassTasks(ts) == {t \in DOMAIN ts : t.op \in PassOps /\ t.pc = "flushEpisode"}

C2_Original ==
  (last.op = "addMemory" /\ last.kind \in {"return", "throw"})
    => /\ added[last.uuid] = 1
       /\ Len(emitted) = 1
       /\ emitted[1].type = "memory:added"
       /\ emitted[1].episode.uuid = last.uuid

\* --------------------------------------------------------------------- C3
\* C3: the probe runs exactly once per initialization; the adapter becomes
\* connected only in initialize's continuation and only if the probe succeeded;
\* after an initialization that ended in fallback it is never connected; it
\* stops being connected only when destroy() completes.
C3_Connectivity ==
  /\ [](probes = IF config.enabled THEN 1 ELSE 0)
  /\ []((initPc = "done" /\ ~isAvailable) => ~isConnected)
  /\ [][(~isConnected /\ isConnected') => (last'.op = "initialize" /\ isAvailable)]_vars
  /\ [][(isConnected /\ ~isConnected')
          => (last'.op = "destroy" /\ last'.kind = "return")]_vars

C3_Witness ==
  initPc = "done" /\ ~isAvailable /\ ~isConnected /\ last.op = "addMemory"

\* --------------------------------------------------------------------- C4
\* C4: every array of the buffer holds its episodes in the order they were
\* enqueued; a pass suspended in a delivery has handed to flushEpisode exactly
\* the first i episodes of the array it iterates, in array order; and within
\* each group the episodes a pass has attempted are in enqueue order.
C4_FifoWithinGroup ==
  /\ \A a \in ArrIds : \A k1, k2 \in DOMAIN arrays[a] :
       k1 < k2 => Pos(arrays[a][k1].uuid) < Pos(arrays[a][k2].uuid)
  /\ \A t \in PassTasks(tasks) :
       /\ t.i <= Len(arrays[t.episodes])
       /\ t.i <= Len(t.log)
       /\ SubSeq(t.log, Len(t.log) - t.i + 1, Len(t.log)) = SubSeq(arrays[t.episodes], 1, t.i)
       /\ \A k1, k2 \in DOMAIN t.log :
            (k1 < k2 /\ t.log[k1].groupId = t.log[k2].groupId)
              => Pos(t.log[k1].uuid) < Pos(t.log[k2].uuid)

C4_Witness ==
  \E t \in PassTasks(tasks) :
    Len(t.log) = 2 /\ t.log[1].groupId = t.log[2].groupId /\ t.i = 2

\* --------------------------------------------------------------------- C5
\* C5: when a delivery of a pass has failed, the step that resumes the pass
\* throws nothing; if the array it iterates has a next episode the pass is
\* then suspended delivering exactly that episode; otherwise the group's queue
\* is reset and the pass goes on with the first episode of the next non-empty
\* queue, or ends having emitted sync:completed exactly once with no queue it
\* had still to visit left non-empty.
C5_FailureDoesNotAbort ==
  /\ [](last.op = "syncWithGraphiti"
          => /\ last.kind # "throw"
             /\ last.kind = "return" <=> emitted = <<Event("sync:completed", NoEpisode)>>
             /\ last.kind = "pending" <=> emitted = <<>>)
  /\ [][\A t \in DOMAIN tasks :
          (Resumed(t) /\ t.op \in PassOps /\ t.pc = "flushEpisode" /\ last'.op = t.op
             /\ last'.pass = t.passNo
             /\ last'.phase = "resume" /\ last'.remote = "fail")
          => /\ last'.kind # "throw"
             /\ IF t.i < Len(arrays[t.episodes])
                THEN /\ invoked' = flushEpisode(arrays[t.episodes][t.i + 1])
                     /\ emitted' = <<>>
                     /\ \E n \in PassTasks(tasks') :
                          /\ n.op = t.op /\ n.episodes = t.episodes /\ n.i = t.i + 1
                          /\ n.log = Append(t.log, arrays[t.episodes][t.i + 1])
                ELSE /\ MapHas(episodeQueue', t.groupId)
                     /\ arrays'[MapGet(episodeQueue', t.groupId)] = <<>>
                     /\ \/ /\ emitted' = <<Event("sync:completed", NoEpisode)>>
                           /\ invoked' = <<>>
                           /\ \A j \in DOMAIN episodeQueue' :
                                j > t.mapIdx => arrays'[episodeQueue'[j].arr] = <<>>
                        \/ \E n \in PassTasks(tasks') :
                             /\ n.op = t.op /\ n.i = 1 /\ n.mapIdx > t.mapIdx
                             /\ n.log = Append(t.log, arrays'[n.episodes][1])
                             /\ invoked' = flushEpisode(arrays'[n.episodes][1])
                             /\ emitted' = <<>>
                             /\ \A j \in DOMAIN episodeQueue' :
                                  (j > t.mapIdx /\ j < n.mapIdx)
                                    => arrays'[episodeQueue'[j].arr] = <<>>]_vars

C5_Witness ==
  /\ last.op = "syncWithGraphiti" /\ last.phase = "resume" /\ last.remote = "fail"
  /\ last.kind = "pending"
  /\ \E t \in PassTasks(tasks) : Len(t.log) = 2

\* --------------------------------------------------------------------- C6
\* C6 as stated: once a pass has reset the queue of an episode whose delivery
\* failed in it, no later pass (one that started after it) hands that episode
\* to flushEpisode.
C6_Original ==
  (last.op \in PassOps /\ invoked # <<>>)
    => \A d \in discarded : d.uuid = invoked[1].uuid => last.pass <= d.by

\* C6 amended: when a pass reaches the end of the array it iterates, the
\* group's queue is empty after that step whatever the deliveries' outcomes;
\* an episode whose delivery failed in that pass is in no queue from then on,
\* and no pass that starts after the reset hands it to flushEpisode (a pass
\* already under way when the queue was reset may).
C6_FailedEpisodeDiscarded ==
  /\ [](\A d \in discarded : ~EpisodeQueued(d.uuid))
  /\ []((last.op \in PassOps /\ invoked # <<>>)
          => \A d \in discarded : d.uuid = invoked[1].uuid => last.pass <= d.at)
  /\ [][\A t \in DOMAIN tasks :
          (Resumed(t) /\ t.op \in PassOps /\ t.pc = "flushEpisode" /\ last'.op = t.op
             /\ last'.pass = t.passNo
             /\ last'.phase = "resume" /\ t.i >= Len(arrays[t.episodes]))
          => /\ MapHas(episodeQueue', t.groupId)
             /\ arrays'[MapGet(episodeQueue', t.groupId)] = <<>>
             /\ \A e \in Range(arrays[t.episodes]) : ~EpisodeQueued(e.uuid)'
             /\ last'.remote = "fail"
                  => \E d \in discarded' : d.uuid = t.episode.uuid /\ d.by = t.passNo]_vars

C6_Witness ==
  /\ last.op = "syncWithGraphiti" /\ last.remote = "fail" /\ last.kind = "return"
  /\ discarded # {}
  /\ \A j \in DOMAIN episodeQueue : arrays[episodeQueue[j].arr] = <<>>

\* --------------------------------------------------------------------- C7
\* C7: no step of searchNodes or searchFacts throws; a search whose remote
\* invocation failed returns an empty result with relevanceScore 0.
C7_SearchNeverThrows ==
  last.op \in SearchOps
    => /\ last.kind # "throw"
       /\ last.remote = "fail"
            => /\ last.kind = "return"
               /\ last.result = [field |-> searchField(last.op), items |-> <<>>,
                                 relevanceScore |-> 0]
       /\ last.phase = "call" => (last.kind = "return" <=> ~isConnected)

C7_Witness ==
  last.op = "searchFacts" /\ last.remote = "fail" /\ isConnected

\* --------------------------------------------------------------------- C8
\* C8: the first step of clearGraph(), when connected, invokes clear_graph and
\* leaves the caches and the buffer as they are; when not connected it invokes
\* nothing and returns; and clearGraph() throws exactly when the remote clear
\* failed.
C8_RemoteClearFirst ==
  /\ [][(last'.op = "clearGraph" /\ last'.phase = "call")
          => IF isConnected
             THEN /\ invoked' = <<Invocation("clear_graph", NoEpisode)>>
                  /\ last'.kind = "pending"
                  /\ UNCHANGED <<nodeCache, edgeCache, episodeQueue, arrays>>
             ELSE /\ invoked' = <<>>
                  /\ last'.kind = "return"]_vars
  /\ [](last.op = "clearGraph" => (last.kind = "throw" <=> last.remote = "fail"))

C8_Witness ==
  last.op = "clearGraph" /\ last.kind = "throw" /\ isConnected

\* --------------------------------------------------------------------- C9
\* C9 as stated: every clearGraph() call that has ended, by returning or by
\* throwing, has cleared both caches and the buffer and emitted graph:cleared.
C9_Original ==
  (last.op = "clearGraph" /\ last.kind \in {"return", "throw"})
    => /\ nodeCache = <<>> /\ edgeCache = <<>> /\ episodeQueue = <<>>
       /\ emitted = <<Event("graph:cleared", NoEpisode)>>

\* C9 amended: a clearGraph() call that returns (the remote clear succeeded
\* or was not attempted) has cleared both caches and the buffer and emitted
\* graph:cleared exactly once; a call whose remote clear failed leaves caches
\* and buffer as they were and emits nothing.
C9_ClearedUnlessRemoteFailed ==
  /\ []((last.op = "clearGraph" /\ last.kind = "return")
          => /\ nodeCache = <<>> /\ edgeCache = <<>> /\ episodeQueue = <<>>
             /\ getStatistics.queuedEpisodes = 0
             /\ emitted = <<Event("graph:cleared", NoEpisode)>>)
  /\ [][(last'.op = "clearGraph" /\ last'.remote = "fail")
          => /\ emitted' = <<>>
             /\ UNCHANGED <<nodeCache, edgeCache, episodeQueue, arrays>>]_vars

C9_Witness ==
  /\ last.op = "clearGraph" /\ last.phase = "resume" /\ last.kind = "return"
  /\ \E t \in DOMAIN tasks : t.op = "addMemory"

\* --------------------------------------------------------------------- C10
\* C10: in the state in which destroy() emits destroyed, getStatistics()
\* reports no nodes, no edges, an empty cache, no queued episode and
\* isConnected = false.
C10_DestroyedStatistics ==
  (last.op = "destroy" /\ last.kind = "return")
    => /\ emitted = <<Event("destroyed", NoEpisode)>>
       /\ getStatistics = [totalNodes |-> 0, totalEdges |-> 0, queuedEpisodes |-> 0,
                           cacheSize |-> 0, isConnected |-> FALSE]

C10_Witness ==
  /\ last.op = "destroy" /\ last.kind = "return"
  /\ \E t \in DOMAIN tasks : t.op = "addMemory"

\* --------------------------------------------------------------------- C11
\* C11: the periodic timer is armed only while auto-sync is enabled and the
\* adapter is connected; once destroy() has completed the timer is not armed
\* and no periodic pass begins.
C11_Original ==
  /\ syncTimer => (config.enableAutoSync /\ isConnected)
  /\ destroyed => ~syncTimer
  /\ destroyed => ~(last.op = "syncWithGraphiti" /\ last.phase = "call")

\* --------------------------------------------------------------------- C12
\* The queue of group g in buffer (q, h): empty if the Map has no entry for g.
QueueOf(q, h, g) == IF MapHas(q, g) THEN h[MapGet(q, g)] ELSE <<>>

C13_UpdateFactValidity ==
  [][last'.op = "updateFactValidity"
       => /\ invoked' = <<>>
          /\ last'.kind = "return"
          /\ UNCHANGED <<episodeQueue, arrays, tasks, nodeCache, isConnected, syncTimer>>
          /\ IF config.enableTemporalTracking
                /\ \E j \in DOMAIN edgeCache : edgeCache[j].key = last'.args.edgeUuid
             THEN /\ DOMAIN edgeCache' = DOMAIN edgeCache
                  /\ \A j \in DOMAIN edgeCache :
                       IF edgeCache[j].key = last'.args.edgeUuid
                       THEN /\ edgeCache'[j].key = edgeCache[j].key
                            /\ edgeCache'[j].edge.uuid = edgeCache[j].edge.uuid
                            /\ edgeCache'[j].edge.invalid = ~last'.args.isValid
                            /\ edgeCache'[j].edge.validUntil = last'.args.validUntil
                       ELSE edgeCache'[j] = edgeCache[j]
                  /\ Len(emitted') = 1
                  /\ emitted'[1] = [type |-> "fact:updated",
                                    edgeUuid |-> last'.args.edgeUuid,
                                    isValid |-> last'.args.isValid,
                                    validUntil |-> last'.args.validUntil]
             ELSE /\ edgeCache' = edgeCache
                  /\ emitted' = <<>>]_vars

C13_Witness ==
  /\ last.op = "updateFactValidity" /\ Len(emitted) = 1
  /\ ~last.args.isValid
  /\ Len(edgeCache) = 3
  /\ edgeCache[2].edge = [uuid |-> 1, invalid |-> TRUE, validUntil |-> 7]
  /\ edgeCache[3].edge = [uuid |-> 5, invalid |-> FALSE, validUntil |-> 7]
  /\ episodeQueue # <<>>

\* --------------------------------------------------------------------- C14
\* C14: a call of shareWithHiveMind invokes nothing remote and changes no
\* variable of the adapter.  If no uuid of nodeUuids is a key of the node
\* cache it emits nothing; otherwise it emits exactly one hivemind:share whose
\* targetSwarms is the argument and whose nodes are, in argument order, the
\* cached nodes of the uuids that are keys of the cache.
C14_ShareWithHiveMind ==
  [][last'.op = "shareWithHiveMind"
       => LET cached(u) == \E j \in DOMAIN nodeCache : nodeCache[j].key = u
              resolving == SelectSeq(last'.args.nodeUuids, cached)
          IN /\ invoked' = <<>>
             /\ last'.kind = "return"
             /\ UNCHANGED <<config, isConnected, syncTimer, episodeQueue, arrays,
                            nodeCache, edgeCache, tasks, nextId, initPc>>
             /\ IF resolving = <<>>
                THEN emitted' = <<>>
                ELSE /\ Len(emitted') = 1
                     /\ emitted'[1].type = "hivemind:share"
                     /\ emitted'[1].targetSwarms = last'.args.targetSwarms
                     /\ Len(emitted'[1].nodes) = Len(resolving)
                     /\ \A k \in DOMAIN resolving :
                          /\ emitted'[1].nodes[k].uuid = resolving[k]
                          /\ \E j \in DOMAIN nodeCache :
                               /\ nodeCache[j].key = resolving[k]
                               /\ nodeCache[j].node = emitted'[1].nodes[k]]_vars

C14_Witness ==
  /\ last.op = "shareWithHiveMind"
  /\ Len(last.args.nodeUuids) = 3
  /\ Len(emitted) = 1
  /\ Len(emitted[1].nodes) = 2
  /\ emitted[1].nodes[1].uuid = 3 /\ emitted[1].nodes[2].uuid = 1
  /\ nodeCache[1].key = 1

\* --------------------------------------------------------------------- C15
\* Two characters that differ at most in case.
SameLetter(c, d) ==
  \/ c = d
  \/ {c, d} \in {{"a", "A"}, {"b", "B"}, {"c", "C"}, {"x", "X"}, {"z", "Z"}}

\* str contains sub, case ignored.
ContainsIgnoringCase(str, sub) ==
  \E k \in 0 .. (Len(str) - Len(sub)) :
    \A i \in 1 .. Len(sub) : SameLetter(str[k + i], sub[i])

C16_Original ==
  (last.op \in SearchOps /\ last.phase = "resume" /\ last.remote = "ok")
    => /\ last.kind = "return"
       /\ last.result.items = last.args.items
       /\ last.result.relevanceScore = last.args.relevanceScore

\* --------------------------------------------------------------------- C17
\* C17: the reset of a pass is not atomic with the deliveries before it.  When
\* a pass resumes at the end of the array it iterates, line 462 takes out of the
\* buffer every episode the group's queue holds at that moment, delivered or
\* not, those addMemory queued since the pass began included; and only a step
\* of a pass resets a queue.  The witness is the interleaving: an
\* episode queued after the pass began is taken out by that pass's reset,
\* the pass has not handed it to flushEpisode, no invocation has delivered it
\* and none is under way or to come for it.
C17_DrainThenClearNotAtomic ==
  /\ [](dropped # {} => last.op \in PassOps)
  /\ [](\A d \in dropped : ~EpisodeQueued(d.uuid))
  /\ [][\A t \in DOMAIN tasks :
          (Resumed(t) /\ t.op \in PassOps /\ t.pc = "flushEpisode" /\ last'.op = t.op
             /\ last'.pass = t.passNo
             /\ last'.phase = "resume" /\ t.i >= Len(arrays[t.episodes]))
          => \A e \in Range(QueueOf(episodeQueue, arrays, t.groupId)) :
               /\ ~EpisodeQueued(e.uuid)'
               /\ \E d \in dropped' :
                    /\ d.uuid = e.uuid
                    /\ d.racing <=> (Pos(e.uuid) >= t.since)
                    /\ d.attempted <=> (\E k \in DOMAIN t.log : t.log[k].uuid = e.uuid)]_vars

C17_Witness ==
  /\ last.op \in PassOps
  /\ \E d \in dropped :
       /\ d.racing
       /\ ~d.attempted
       /\ d.uuid \notin delivered
       /\ \A t \in DOMAIN tasks : t.episode.uuid # d.uuid
       /\ \A a \in HeldArrays(tasks) : \A k \in DOMAIN arrays[a] : arrays[a][k].uuid # d.uuid

\* --------------------------------------------------------------------- C18
\* C18 as stated: every episode a reset takes out of the buffer had been
\* handed to flushEpisode by the pass that resets.
C18_Original ==
  \A d \in dropped : d.attempted

\* C18 amended: a pass that resumes before the end of the array it iterates
\* resets nothing.  When it resumes at the end it has handed every episode of
\* that array to flushEpisode, those pushed while it was suspended included;
\* if the Map still holds that array under the group's key, the reset takes
\* out only episodes the pass has attempted.  The first step of a pass takes
\* nothing out, and the array under a key is replaced only by a step of a
\* pass, of clearGraph or of destroy.
C18_AttemptedUnlessDetached ==
  /\ []((last.op \in PassOps /\ last.phase = "call") => dropped = {})
  /\ [][\A g \in Groups :
          (MapHas(episodeQueue, g)
             /\ (~MapHas(episodeQueue', g) \/ MapGet(episodeQueue', g) # MapGet(episodeQueue, g)))
          => last'.op \in PassOps \cup {"clearGraph"}]_vars
  /\ [][\A t \in DOMAIN tasks :
          (Resumed(t) /\ t.op \in PassOps /\ t.pc = "flushEpisode" /\ last'.op = t.op
             /\ last'.pass = t.passNo /\ last'.phase = "resume")
          => IF t.i < Len(arrays[t.episodes])
             THEN dropped' = {}
             ELSE /\ \A k \in DOMAIN arrays[t.episodes] :
                       \E n \in DOMAIN t.log : t.log[n] = arrays[t.episodes][k]
                  /\ (MapHas(episodeQueue, t.groupId)
                        /\ MapGet(episodeQueue, t.groupId) = t.episodes)
                       => \A d \in dropped' : d.attempted]_vars

C18_Witness ==
  /\ last.op = "syncWithGraphiti" /\ last.phase = "resume"
  /\ \E d \in dropped : d.racing /\ d.attempted
  /\ \A d \in dropped : d.attempted

\* --------------------------------------------------------------------- C19
\* The first episode of the first non-empty queue, as a one-element set.
FirstQueued(q, h) ==
  {h[q[j].arr][1] : j \in {n \in DOMAIN q : /\ h[q[n].arr] # <<>>
                                            /\ \A m \in 1 .. (n - 1) : h[q[m].arr] = <<>>}}

\* C19: the step of addMemory that follows a successful immediate delivery
\* leaves the write buffer as it is; an episode leaves the buffer only in a
\* step of a pass, of clearGraph or of destroy; a pass hands the episodes of
\* the arrays it iterates to flushEpisode whether or not they have been
\* delivered before; and with auto-sync disabled no periodic pass runs.
C19_DeliveredEpisodeStaysQueued ==
  /\ [](~config.enableAutoSync => (~syncTimer /\ last.op # "syncWithGraphiti"))
  /\ [][(last'.op = "addMemory" /\ last'.phase = "resume" /\ last'.remote = "ok")
          => /\ last'.kind = "return"
             /\ last'.uuid \in delivered'
             /\ UNCHANGED <<episodeQueue, arrays>>]_vars
  /\ [][\A u \in Uuids : (EpisodeQueued(u) /\ ~EpisodeQueued(u)')
          => (last'.op \in PassOps \cup {"clearGraph"} /\ last'.op # "addMemory")]_vars
  /\ [][(last'.op \in PassOps /\ last'.phase = "call")
          => \A e \in FirstQueued(episodeQueue, arrays) : invoked' = flushEpisode(e)]_vars
  /\ [][\A t \in DOMAIN tasks :
          (Resumed(t) /\ t.op \in PassOps /\ t.pc = "flushEpisode" /\ last'.op = t.op
             /\ last'.pass = t.passNo /\ last'.phase = "resume"
             /\ t.i < Len(arrays[t.episodes]))
          => invoked' = flushEpisode(arrays[t.episodes][t.i + 1])]_vars

C19_Witness ==
  /\ last.op = "syncWithGraphiti" /\ passes = 1
  /\ Len(invoked) = 1
  /\ invoked[1].tool = "add_memory"
  /\ invoked[1].uuid \in delivered
  /\ added[invoked[1].uuid] = 1
  /\ EpisodeQueued(invoked[1].uuid)

\* --------------------------------------------------------------------- C20
\* C20: in every state both caches are empty and getStatistics() reports
\* totalNodes = totalEdges = cacheSize = 0; a fallback search returns no node
\* and relevanceScore 0; no step emits fact:updated or hivemind:share.
C20_CachesStayEmpty ==
  /\ nodeCache = <<>>
  /\ edgeCache = <<>>
  /\ getStatistics.totalNodes = 0
  /\ getStatistics.totalEdges = 0
  /\ getStatistics.cacheSize = 0
  /\ (last.op \in SearchOps /\ last.phase = "call" /\ last.kind = "return")
       => (last.result.items = <<>> /\ last.result.relevanceScore = 0)
  /\ last.op \in {"updateFactValidity", "shareWithHiveMind"} => emitted = <<>>
  /\ \A k \in DOMAIN emitted : emitted[k].type \notin {"fact:updated", "hivemind:share"}

C20_Witness ==
  /\ last.op = "updateFactValidity"
  /\ config.enableTemporalTracking
  /\ emitted = <<>>
  /\ delivered # {}
  /\ QueuedUuids # {}
====
